---- MODULE Spec2Model ----
(***************************************************************************)
(* Model of db.py: the module-level engine, the thread-local context       *)
(* _Dbctx, the lazily opened connection _LazyConnection, the scope guards  *)
(* _ConnectionCtx and _Transactions, and the statement executors _select   *)
(* and _update.  The driver (pymysql) is an external collaborator: each of *)
(* its calls may succeed or raise, chosen nondeterministically.            *)
(***************************************************************************)
EXTENDS Integers, Sequences, FiniteSets, TLC

\* ---------------------------------------------------------------- bounds
MaxDepth == 2      \* scopes open at once on one thread
MaxLazy == 2       \* _LazyConnection objects constructed in a run
MaxConns == 2      \* driver connections opened in a run
MaxEngines == 2    \* _Engine objects constructed in a run

Threads == {1, 2}

VARIABLES
    world,      \* the run's setting: the threads that run, whether driver calls
                \* may fail, whether history (nest, life, last) is recorded, and
                \* the bounds on scope nesting and engines
    engine,     \* db.engine: 0 is None, else the identity of the _Engine
    nEngines,   \* how many _Engine objects have been constructed
    ctx,        \* _db_ctx: per context slot, [connection, transactions]
    lazies,     \* _LazyConnection objects: lazies[l] is its .connection (0 is None)
    driver,     \* driver connections: [state, thread, closes, lazy]
    stack,      \* per thread, the scope objects whose body is running
    exc,        \* per thread, the exception propagating at the current level
    nest,       \* per thread, history of the current transaction nest
    life,       \* per thread, the engine.connect() calls of the current
                \* lifecycle of the context (from its init to its cleanup)
    last        \* what the last handler did: its driver calls and its outcome

vars == <<world, engine, nEngines, ctx, lazies, driver, stack, exc, nest, life, last>>

\* ------------------------------------------------------- small code pieces

\* class _Dbctx(threading.local): every thread gets its own attribute slot
CtxShared(t) == 1
CtxOf(t) == t

\* _Dbctx.is_init: not (self.connection is None)
IsInit(c) == c.connection # 0

\* create_engine: if engine is not None: raise DBError
EngineUnguarded(e) == FALSE
EngineLatched(e) == TRUE
EngineIsSet(e) == e # 0

\* _Transactions.__exit__: if _db_ctx.transactions == 0
DecideAlways(n) == TRUE
ShouldDecide(n) == n = 0

\* _Transactions.__exit__: if exc_type is None: commit() else: rollback()
CommitAlways(e) == TRUE
ChooseCommit(e) == e = "none"

\* _update: if not _db_ctx.transactions: connection.commit()
AutoCommitAlways(n) == TRUE
AutoCommit(n) == n = 0

\* the driver calls whose outcome the environment chooses
Outcomes == [connect : BOOLEAN, cursor : BOOLEAN, execute : BOOLEAN,
             commit : BOOLEAN, rollback : BOOLEAN, curclose : BOOLEAN,
             close : BOOLEAN]

AllOk(o) == /\ o.connect /\ o.cursor /\ o.execute /\ o.commit
            /\ o.rollback /\ o.curclose /\ o.close

Call(f, c, ok) == [f |-> f, c |-> c, ok |-> ok]

\* A handler's working state: the thread's context, the heap of lazy
\* connections and driver connections, the driver calls made so far, the
\* exception being raised ("none" when none), the open cursor flag, the
\* engine whose connect() was called (0 when none was) and the thread's
\* connect history.
Local(t) == [c |-> ctx[CtxOf(t)], lz |-> lazies, dr |-> driver,
             calls |-> <<>>, err |-> "none", cur |-> FALSE, t |-> t, by |-> 0,
             life |-> life[t]]

\* connect history of a lifecycle of the context, which runs from
\* _Dbctx.init to the next call of _Dbctx.cleanup (alive): engine.connect()
\* was called in it (tried), and returned a connection in it (ok)
NoLife == [alive |-> FALSE, tried |-> FALSE, ok |-> FALSE]

\* _Dbctx.init: self.connection = _LazyConnection(); self.transactions = 0
DbInit(S) ==
    [S EXCEPT !.lz = Append(S.lz, 0),
              !.c = [connection |-> Len(S.lz) + 1, transactions |-> 0],
              !.life = [alive |-> TRUE, tried |-> FALSE, ok |-> FALSE]]

\* _LazyConnection.cursor, lines 84-86: _connection = engine.connect();
\* self.connection = _connection   (engine is None: None.connect())
LazyConnect(S, o) ==
    LET l == S.c.connection
        d == Len(S.dr) + 1
        S1 == [S EXCEPT !.by = engine,
                        !.life = IF ~@.alive THEN @
                                 ELSE [@ EXCEPT !.tried = TRUE,
                                                !.ok = @ \/ o.connect]]
    IN IF engine = 0 THEN [S EXCEPT !.err = "AttributeError"]
       ELSE IF ~o.connect
       THEN [S1 EXCEPT !.err = "DriverError",
                       !.calls = Append(@, Call("connect", 0, FALSE))]
       ELSE [S1 EXCEPT !.dr = Append(@, [state |-> "open", thread |-> S.t,
                                         closes |-> 0, lazy |-> l]),
                       !.lz[l] = d,
                       !.calls = Append(@, Call("connect", d, TRUE))]

\* _LazyConnection.cursor, line 87: return self.connection.cursor()
LazyCursorCall(S, o) ==
    IF S.err # "none" THEN S
    ELSE [S EXCEPT !.calls = Append(@, Call("cursor", S.lz[S.c.connection], o.cursor)),
                   !.cur = o.cursor,
                   !.err = IF o.cursor THEN "none" ELSE "DriverError"]

\* _LazyConnection.cursor (through _db_ctx.connection.cursor()): connects
\* when self.connection is None
LazyCursorReconnect(S, o) ==
    IF S.c.connection = 0 THEN [S EXCEPT !.err = "AttributeError"]
    ELSE LazyCursorCall(LazyConnect(S, o), o)
LazyCursor(S, o) ==
    LET l == S.c.connection IN
    IF l = 0 THEN [S EXCEPT !.err = "AttributeError"]
    ELSE LazyCursorCall(IF S.lz[l] # 0 THEN S ELSE LazyConnect(S, o), o)

\* cursor.execute(sql, args)
Execute(S, o) ==
    [S EXCEPT !.calls = Append(@, Call("execute", S.lz[S.c.connection], o.execute)),
              !.err = IF o.execute THEN "none" ELSE "DriverError"]

\* _LazyConnection.commit: return self.connection.commit()
LazyCommit(S, o) ==
    LET l == S.c.connection IN
    IF l = 0 \/ S.lz[l] = 0 THEN [S EXCEPT !.err = "AttributeError"]
    ELSE [S EXCEPT !.calls = Append(@, Call("commit", S.lz[l], o.commit)),
                   !.err = IF o.commit THEN "none" ELSE "DriverError"]

\* _LazyConnection.rollback: return self.connection.rollback()
LazyRollback(S, o) ==
    LET l == S.c.connection IN
    IF l = 0 \/ S.lz[l] = 0 THEN [S EXCEPT !.err = "AttributeError"]
    ELSE [S EXCEPT !.calls = Append(@, Call("rollback", S.lz[l], o.rollback)),
                   !.err = IF o.rollback THEN "none" ELSE "DriverError"]

\* _LazyConnection.cleanup: if self.connection: forget it, then close it
LazyCleanup(S, o) ==
    LET l == S.c.connection
        d == S.lz[l] IN
    IF d = 0 THEN S
    ELSE [S EXCEPT !.lz[l] = 0,
                   !.dr[d].state = IF o.close THEN "closed" ELSE "closeFailed",
                   !.dr[d].closes = @ + 1,
                   !.calls = Append(@, Call("close", d, o.close)),
                   !.err = IF o.close THEN S.err ELSE "CloseError"]

\* _Dbctx.cleanup: self.connection.cleanup(); self.connection = None
DbCleanup(S, o) ==
    IF S.c.connection = 0 THEN [S EXCEPT !.err = "AttributeError"]
    ELSE LET S1 == LazyCleanup([S EXCEPT !.err = "none", !.life = NoLife], o) IN
         IF S1.err # "none" THEN S1
         ELSE [S1 EXCEPT !.c.connection = 0, !.err = S.err]

\* _Transactions.commit: try connection.commit() except: connection.rollback()
TxCommitNoFallback(S, o) == LazyCommit(S, o)
TxCommit(S, o) ==
    LET S1 == LazyCommit(S, o) IN
    IF S1.err = "none" THEN S1 ELSE LazyRollback([S1 EXCEPT !.err = "none"], o)

\* _Transactions.rollback
TxRollbackRetry(S, o) ==
    LET S1 == LazyRollback(S, o) IN
    IF S1.err = "none" THEN S1 ELSE LazyRollback([S1 EXCEPT !.err = "none"], o)
TxRollback(S, o) == LazyRollback(S, o)

\* cursor.close() in the executors' finally block: if cursor: cursor.close()
CursorClose(S, o) ==
    IF ~S.cur THEN S
    ELSE [S EXCEPT !.calls = Append(@, Call("curclose", S.lz[S.c.connection], o.curclose)),
                   !.err = IF o.curclose THEN S.err ELSE "DriverError"]

\* _ConnectionCtx.__enter__ / the first half of _Transactions.__enter__:
\* should_cleanup = False; if not is_init(): init(); should_cleanup = True
ScopeEnterAlways(S) == DbInit(S)
ScopeEnter(S) == IF IsInit(S.c) THEN S ELSE DbInit(S)

\* _ConnectionCtx.__exit__: if self.should_cleanup: _db_ctx.cleanup()
ScopeExitAlways(S, should, o) == DbCleanup(S, o)
ScopeExit(S, should, o) == IF should THEN DbCleanup(S, o) ELSE S

\* the with statement after __exit__: both __exit__ methods return None, so
\* the body's exception goes on propagating, unless __exit__ itself raised
Suppress(excIn, raised) == raised
Propagate(excIn, raised) == IF raised # "none" THEN raised ELSE excIn

\* the scope object, with what it saw when it was entered
Frame(kind, should, S0, S1) ==
    [kind |-> kind, should |-> should, lazy |-> S1.c.connection,
     depth0 |-> S0.c.transactions, init0 |-> IsInit(S0.c)]

TxnFrames(s) == {i \in 1..Len(s) : s[i].kind = "txn"}

Top(t) == stack[t][Len(stack[t])]
Pop(t) == SubSeq(stack[t], 1, Len(stack[t]) - 1)

\* the outcomes that matter to a scope exit / to an executor
\* (a call that is not reached has no outcome to choose)
ExitOutcomes(t, kind) ==
    LET c == ctx[CtxOf(t)]
        opened == IsInit(c) /\ lazies[c.connection] # 0
    IN {o \in Outcomes :
          /\ (~world.faults => AllOk(o))
          /\ o.connect /\ o.cursor /\ o.execute /\ o.curclose
          /\ (~(opened /\ Top(t).should) => o.close)
          /\ (~(opened /\ kind = "txn" /\ ShouldDecide(c.transactions - 1))
                => o.commit /\ o.rollback)
          /\ (~ChooseCommit(exc[t]) => o.commit)
          /\ (o.commit /\ ChooseCommit(exc[t]) => o.rollback)}
StmtOutcomes(t, kind) ==
    LET c == ctx[CtxOf(t)]
        opened == IsInit(c) /\ lazies[c.connection] # 0
    IN {o \in Outcomes :
          /\ (~world.faults => AllOk(o))
          /\ o.rollback
          /\ (kind = "select" \/ (IsInit(c) /\ ~AutoCommit(c.transactions)) => o.commit)
          /\ (opened \/ engine = 0 => o.connect)
          /\ (engine = 0 /\ ~opened => o.cursor /\ o.close)
          /\ (~o.connect => o.cursor /\ o.close)
          /\ (~o.cursor => o.execute /\ o.curclose /\ o.commit)
          /\ (~o.execute => o.commit)
          /\ (IsInit(c) => o.close)}

\* _db_ctx as thread t sees it
Ctx(t) == ctx[CtxOf(t)]

\* the handler's heap effects become the state
Store(t, S) ==
    /\ ctx' = [ctx EXCEPT ![CtxOf(t)] = S.c]
    /\ lazies' = S.lz
    /\ driver' = S.dr
    /\ life' = [life EXCEPT ![t] = IF world.trace THEN S.life ELSE NoLife]

NoRecord == [op |-> "init", t |-> 0, calls |-> <<>>, excIn |-> "none",
             raised |-> "none", decision |-> "none", should |-> FALSE, by |-> 0]

Did(op, t, S, excIn, decision, should) ==
    IF ~world.trace THEN NoRecord
    ELSE [op |-> op, t |-> t, calls |-> S.calls, excIn |-> excIn, raised |-> S.err,
          decision |-> decision, should |-> should, by |-> S.by]

\* a handler that makes no driver call
Quiet(err) == [calls |-> <<>>, err |-> err, by |-> 0]

\* conn: the driver connection of the first statement executed within the
\* nest, while the nest is open
NoNest == [state |-> "none", decisions |-> 0, raised |-> FALSE, nested |-> FALSE,
           conn |-> 0]

\* what a step outside the nest keeps of the nest's history: that of a
\* finished nest is kept for the state that follows its last exit only
NestKept(t) == IF nest[t].state = "done" THEN NoNest ELSE nest[t]

\* the driver connections on which a handler called f, in call order
ConnsOf(calls, f) ==
    LET ix == {i \in 1..Len(calls) : calls[i].f = f}
    IN [i \in ix |-> calls[i].c]

\* the nest's history after an executor ran: the statement's connection is
\* recorded when it is the first one executed in the nest
NestStmt(t, S) ==
    LET on == ConnsOf(S.calls, "execute") IN
    IF ~world.trace \/ TxnFrames(stack[t]) = {} \/ nest[t].conn # 0
       \/ DOMAIN on = {}
    THEN NestKept(t)
    ELSE [nest[t] EXCEPT !.conn = on[CHOOSE i \in DOMAIN on : TRUE]]

Start ==
    /\ engine = 0
    /\ nEngines = 0
    /\ ctx = [s \in Threads |-> [connection |-> 0, transactions |-> 0]]
    /\ lazies = <<>>
    /\ driver = <<>>
    /\ stack = [t \in Threads |-> <<>>]
    /\ exc = [t \in Threads |-> "none"]
    /\ nest = [t \in Threads |-> NoNest]
    /\ life = [t \in Threads |-> NoLife]
    /\ last = NoRecord

\* create_engine(...)
CreateEngine(t) ==
    /\ exc[t] = "none"
    /\ EngineIsSet(engine) \/ nEngines < world.engines
    /\ IF EngineIsSet(engine)
       THEN /\ exc' = [exc EXCEPT ![t] = "DBError"]
            /\ UNCHANGED <<engine, nEngines>>
            /\ last' = Did("CreateEngine", t, Quiet("DBError"),
                           "none", "none", FALSE)
       ELSE /\ engine' = nEngines + 1
            /\ nEngines' = nEngines + 1
            /\ last' = Did("CreateEngine", t, Quiet("none"),
                           "none", "none", FALSE)
            /\ UNCHANGED exc
    /\ nest' = [u \in Threads |-> NestKept(u)]
    /\ UNCHANGED <<world, ctx, lazies, driver, stack, life>>

\* DBTestCase.tearDown: db.engine = None
ResetEngine(t) ==
    /\ exc[t] = "none"
    /\ engine # 0
    /\ engine' = 0
    /\ last' = Did("ResetEngine", t, Quiet("none"),
                   "none", "none", FALSE)
    /\ nest' = [u \in Threads |-> NestKept(u)]
    /\ UNCHANGED <<world, nEngines, ctx, lazies, driver, stack, exc, life>>

\* with connection(): ...   (_ConnectionCtx.__enter__)
ConnEnter(t) ==
    /\ exc[t] = "none"
    /\ Len(stack[t]) < world.depth
    /\ IsInit(ctx[CtxOf(t)]) \/ Len(lazies) < MaxLazy
    /\ LET S0 == Local(t)
           S1 == ScopeEnter(S0)
       IN /\ Store(t, S1)
          /\ stack' = [stack EXCEPT ![t] = Append(@, Frame("conn", ~IsInit(S0.c), S0, S1))]
          /\ last' = Did("ConnEnter", t, S1, "none", "none", ~IsInit(S0.c))
    /\ nest' = [u \in Threads |-> NestKept(u)]
    /\ UNCHANGED <<world, engine, nEngines, exc>>

\* _ConnectionCtx.__exit__(exc_type, ...), exc_type being exc[t]
ConnExit(t) ==
    /\ stack[t] # <<>>
    /\ Top(t).kind = "conn"
    /\ \E o \in ExitOutcomes(t, "conn") :
         LET S1 == ScopeExit(Local(t), Top(t).should, o)
         IN /\ Store(t, S1)
            /\ exc' = [exc EXCEPT ![t] = Propagate(@, S1.err)]
            /\ last' = Did("ConnExit", t, S1, exc[t], "none", Top(t).should)
    /\ stack' = [stack EXCEPT ![t] = Pop(t)]
    /\ nest' = [u \in Threads |-> NestKept(u)]
    /\ UNCHANGED <<world, engine, nEngines>>

\* with _Transactions(): ...   (_Transactions.__enter__)
TxnEnter(t) ==
    /\ exc[t] = "none"
    /\ Len(stack[t]) < world.depth
    /\ IsInit(ctx[CtxOf(t)]) \/ Len(lazies) < MaxLazy
    /\ LET S0 == Local(t)
           S1 == ScopeEnter(S0)
           S2 == [S1 EXCEPT !.c.transactions = @ + 1]
       IN /\ Store(t, S2)
          /\ stack' = [stack EXCEPT ![t] = Append(@, Frame("txn", ~IsInit(S0.c), S0, S2))]
          /\ last' = Did("TxnEnter", t, S2, "none", "none", ~IsInit(S0.c))
    /\ nest' = [nest EXCEPT ![t] = IF ~world.trace THEN NoNest
                                   ELSE IF TxnFrames(stack[t]) = {}
                                   THEN [state |-> "open", decisions |-> 0, raised |-> FALSE,
                                         nested |-> FALSE, conn |-> 0]
                                   ELSE @]
    /\ UNCHANGED <<world, engine, nEngines, exc>>

\* _Transactions.__exit__(exc_type, ...), exc_type being exc[t]
TxnExit(t) ==
    /\ stack[t] # <<>>
    /\ Top(t).kind = "txn"
    /\ \E o \in ExitOutcomes(t, "txn") :
         LET S0 == [Local(t) EXCEPT !.c.transactions = @ - 1]
             decide == ShouldDecide(S0.c.transactions)
             decision == IF ~decide THEN "none"
                         ELSE IF ChooseCommit(exc[t]) THEN "commit" ELSE "rollback"
             S1 == IF decision = "commit" THEN TxCommit(S0, o)
                   ELSE IF decision = "rollback" THEN TxRollback(S0, o)
                   ELSE S0
             S2 == ScopeExit(S1, Top(t).should, o)
         IN /\ Store(t, S2)
            /\ exc' = [exc EXCEPT ![t] = Propagate(@, S2.err)]
            /\ last' = Did("TxnExit", t, S2, exc[t], decision, Top(t).should)
            /\ nest' = [nest EXCEPT ![t] =
                          IF ~world.trace THEN NoNest ELSE
                          [state |-> IF TxnFrames(Pop(t)) = {} THEN "done" ELSE "open",
                           decisions |-> @.decisions + (IF decide THEN 1 ELSE 0),
                           raised |-> @.raised \/ exc[t] # "none",
                           nested |-> @.nested \/ TxnFrames(Pop(t)) # {},
                           conn |-> IF TxnFrames(Pop(t)) = {} THEN 0 ELSE @.conn]]
    /\ stack' = [stack EXCEPT ![t] = Pop(t)]
    /\ UNCHANGED <<world, engine, nEngines>>

\* user code in a scope body raises
BodyRaise(t) ==
    /\ exc[t] = "none"
    /\ stack[t] # <<>>
    /\ exc' = [exc EXCEPT ![t] = "BodyError"]
    /\ last' = Did("BodyRaise", t, Quiet("BodyError"),
                   "none", "none", FALSE)
    /\ nest' = [u \in Threads |-> NestKept(u)]
    /\ UNCHANGED <<world, engine, nEngines, ctx, lazies, driver, stack, life>>

\* user code at the current level handles the propagating exception
Catch(t) ==
    /\ exc[t] # "none"
    /\ exc' = [exc EXCEPT ![t] = "none"]
    /\ last' = Did("Catch", t, Quiet("none"),
                   exc[t], "none", FALSE)
    /\ nest' = [u \in Threads |-> NestKept(u)]
    /\ UNCHANGED <<world, engine, nEngines, ctx, lazies, driver, stack, life>>

\* an executor may run when the objects it may have to construct fit the bounds
StmtFits(t) ==
    LET c == ctx[CtxOf(t)] IN
    /\ IsInit(c) \/ Len(lazies) < MaxLazy
    /\ (IsInit(c) /\ lazies[c.connection] # 0) \/ engine = 0 \/ Len(driver) < MaxConns

\* _select under @with_connection (select, select_one)
Select(t) ==
    /\ exc[t] = "none"
    /\ StmtFits(t)
    /\ \E o \in StmtOutcomes(t, "select") :
         LET S0 == Local(t)
             S1 == ScopeEnter(S0)
             S2 == LazyCursor(S1, o)
             S3 == IF S2.err = "none" THEN Execute(S2, o) ELSE S2
             S4 == CursorClose(S3, o)
             S5 == ScopeExit(S4, ~IsInit(S0.c), o)
         IN /\ Store(t, S5)
            /\ exc' = [exc EXCEPT ![t] = S5.err]
            /\ last' = Did("Select", t, S5, "none", "none", ~IsInit(S0.c))
            /\ nest' = [nest EXCEPT ![t] = NestStmt(t, S5)]
    /\ UNCHANGED <<world, engine, nEngines, stack>>

\* _update under @with_connection (update, insert)
Update(t) ==
    /\ exc[t] = "none"
    /\ StmtFits(t)
    /\ \E o \in StmtOutcomes(t, "update") :
         LET S0 == Local(t)
             S1 == ScopeEnter(S0)
             S2 == LazyCursor(S1, o)
             S3 == IF S2.err = "none" THEN Execute(S2, o) ELSE S2
             S4 == IF S3.err = "none" /\ AutoCommit(S3.c.transactions)
                   THEN LazyCommit(S3, o) ELSE S3
             S5 == CursorClose(S4, o)
             S6 == ScopeExit(S5, ~IsInit(S0.c), o)
         IN /\ Store(t, S6)
            /\ exc' = [exc EXCEPT ![t] = S6.err]
            /\ last' = Did("Update", t, S6, "none", "none", ~IsInit(S0.c))
            /\ nest' = [nest EXCEPT ![t] = NestStmt(t, S6)]
    /\ UNCHANGED <<world, engine, nEngines, stack>>

\* one thread, a driver whose calls may fail, one engine less than the bound
Init ==
    /\ world = [threads |-> {1}, faults |-> TRUE, trace |-> TRUE,
                depth |-> MaxDepth, engines |-> MaxEngines - 1]
    /\ Start

\* one thread creating and tearing down engines up to the bound; the
\* driver's calls succeed and scopes nest one level less
InitEngines ==
    /\ world = [threads |-> {1}, faults |-> FALSE, trace |-> TRUE,
                depth |-> MaxDepth - 1, engines |-> MaxEngines]
    /\ Start

\* two threads interleaving every operation; the driver's calls succeed
\* (exceptions still arise from scope bodies, a missing engine and
\* create_engine), history is not recorded, and scopes nest one level less
InitThreads ==
    /\ world = [threads |-> Threads, faults |-> FALSE, trace |-> FALSE,
                depth |-> MaxDepth - 1, engines |-> MaxEngines - 1]
    /\ Start

Next ==
    \/ \E t \in world.threads : CreateEngine(t)
    \/ \E t \in world.threads : ResetEngine(t)
    \/ \E t \in world.threads : ConnEnter(t)
    \/ \E t \in world.threads : ConnExit(t)
    \/ \E t \in world.threads : TxnEnter(t)
    \/ \E t \in world.threads : TxnExit(t)
    \/ \E t \in world.threads : BodyRaise(t)
    \/ \E t \in world.threads : Catch(t)
    \/ \E t \in world.threads : Select(t)
    \/ \E t \in world.threads : Update(t)

Spec == Init /\ [][Next]_vars

SpecThreads == InitThreads /\ [][Next]_vars
SpecEngines == InitEngines /\ [][Next]_vars

\* ---------------------------------------------------------------- claims

\* what the last handler called on the driver
Calls == last.calls
CallIx(f) == {i \in DOMAIN Calls : Calls[i].f = f}
Called(f) == CallIx(f) # {}
CalledOk(f, ok) == \E i \in CallIx(f) : Calls[i].ok = ok
Exits == {"ConnExit", "TxnExit"}
Executors == {"Select", "Update"}
InTxn(t) == TxnFrames(stack[t]) # {}
OpenConns(t) == {d \in DOMAIN driver : driver[d].thread = t /\ driver[d].state = "open"}

\* C1: in a nest of transaction scopes exactly one decision (commit or
\* rollback) is made, by the exit of the outermost scope, which is the exit
\* that brings the depth to 0; an exit that leaves depth > 0 decides nothing
\* and calls neither commit nor rollback on the connection.
C1_OneDecisionPerNest ==
    \A t \in world.threads :
       /\ nest[t].state = "open" => nest[t].decisions = 0 /\ InTxn(t)
       /\ nest[t].state = "done" => nest[t].decisions = 1 /\ ~InTxn(t)
       /\ last.op = "TxnExit" /\ last.t = t =>
            /\ (Ctx(t).transactions = 0) <=> ~InTxn(t)
            /\ (last.decision # "none") <=> (Ctx(t).transactions = 0)
            /\ Ctx(t).transactions > 0 => ~Called("commit") /\ ~Called("rollback")

\* C1 witness: a nest with an inner scope has been exited with its one decision
C1_Witness ==
    /\ last.op = "TxnExit"
    /\ nest[last.t].state = "done"
    /\ nest[last.t].nested
    /\ nest[last.t].decisions = 1
    /\ Called("commit")

\* C2 as claimed: the outermost exit commits only if no scope body of the
\* nest raised (whether or not the exception was handled by an enclosing body
\* before that body's own exit), and it commits if none raised.
C2_AnyRaiseForcesRollback ==
    (last.op = "TxnExit" /\ nest[last.t].state = "done")
       => /\ CalledOk("commit", TRUE) => ~nest[last.t].raised
          /\ ~nest[last.t].raised => last.decision = "commit"

\* C2 amended: the decision at depth 0 is a commit exactly when the body of
\* the outermost scope did not raise, i.e. no exception reached that exit; in
\* particular it is a commit when no scope of the nest raised, and a rollback
\* whenever the exception of an inner scope propagates to the outermost exit.
C2_DecisionFollowsOutermostBody ==
    (last.op = "TxnExit" /\ nest[last.t].state = "done")
       => /\ (last.decision = "commit") <=> (last.excIn = "none")
          /\ (last.decision = "rollback") <=> (last.excIn # "none")
          /\ ~nest[last.t].raised => last.decision = "commit"

\* C2 witness: an exception that crossed an inner exit reaches the outermost
\* exit, which rolls back
C2_Witness ==
    /\ last.op = "TxnExit"
    /\ nest[last.t].state = "done"
    /\ nest[last.t].nested
    /\ last.excIn # "none"
    /\ last.decision = "rollback"
    /\ Called("rollback")

\* C3: update/insert with no enclosing transaction scope commits right after
\* the statement executed; inside a transaction scope an executor commits
\* nothing, and the only other commit is the one of the outermost transaction
\* exit whose body did not raise.
C3_AutoCommitOnlyOutsideTransactions ==
    /\ (last.op = "Update" /\ ~InTxn(last.t) /\ CalledOk("execute", TRUE))
          => \E i \in CallIx("execute") :
                /\ i + 1 \in CallIx("commit")
                /\ Calls[i + 1].c = Calls[i].c
    /\ (last.op \in Executors /\ InTxn(last.t)) => ~Called("commit")
    /\ last.op = "Select" => ~Called("commit")
    /\ Called("commit") =>
          \/ last.op = "Update" /\ ~InTxn(last.t) /\ CalledOk("execute", TRUE)
          \/ last.op = "TxnExit" /\ ~InTxn(last.t) /\ last.excIn = "none"

\* C3 witness: a statement executed inside a transaction scope, uncommitted
C3_Witness ==
    /\ last.op = "Update"
    /\ InTxn(last.t)
    /\ CalledOk("execute", TRUE)
    /\ ~Called("commit")

\* C4: nested connection scopes all see the Lazy Connection (and the driver
\* connection) of the outermost scope, no inner exit closes or discards it,
\* and when the outermost scope exits every driver connection of the thread
\* has been closed exactly once.
C4_ClosedOnceByOutermostExit ==
    \A t \in world.threads :
       /\ \A i \in DOMAIN stack[t] : stack[t][i].lazy = Ctx(t).connection
       /\ (last.op \in Exits /\ last.t = t /\ stack[t] # <<>>)
             => ~Called("close") /\ IsInit(Ctx(t))
       /\ (last.op \in Exits /\ last.t = t /\ stack[t] = <<>>)
             => \A d \in DOMAIN driver : driver[d].thread = t => driver[d].closes = 1

\* C5: after a scope exit, on every exit path: a scope that owned the context
\* leaves it uninitialized with no driver connection of the thread open, a
\* scope that did not own it leaves the enclosing scope's connection in
\* place; with no scope left on the thread no driver connection is open.
C5_NoLeakAfterScopeExit ==
    \A t \in world.threads :
       /\ (last.op \in Exits /\ last.t = t /\ last.should)
             => ~IsInit(Ctx(t)) /\ OpenConns(t) = {}
       /\ (last.op \in Exits /\ last.t = t /\ ~last.should)
             => /\ IsInit(Ctx(t))
                /\ \A i \in DOMAIN stack[t] : stack[t][i].lazy = Ctx(t).connection
       /\ stack[t] = <<>> => OpenConns(t) = {}

\* C6 as claimed: a failed commit at the outermost transaction exit is
\* followed by a rollback on the same connection, and the exit raises nothing
\* as long as that rollback succeeds.
C6_CommitFailureSwallowed ==
    (last.op = "TxnExit" /\ CalledOk("commit", FALSE))
       => \E i \in CallIx("commit") :
             /\ i + 1 \in CallIx("rollback")
             /\ Calls[i + 1].c = Calls[i].c
             /\ Calls[i + 1].ok => last.raised = "none" /\ exc[last.t] = "none"

\* C6 amended: a failed commit at the outermost transaction exit is followed
\* by a rollback on the same connection and the commit error is swallowed; the
\* exit raises nothing as long as that rollback succeeds and the close done by
\* the cleanup of an owning scope does not fail (a failed close propagates).
C6_CommitFailureFallsBackToRollback ==
    (last.op = "TxnExit" /\ CalledOk("commit", FALSE))
       => \E i \in CallIx("commit") :
             /\ i + 1 \in CallIx("rollback")
             /\ Calls[i + 1].c = Calls[i].c
             /\ (Calls[i + 1].ok /\ ~CalledOk("close", FALSE))
                   => last.raised = "none" /\ exc[last.t] = "none"
             /\ (Calls[i + 1].ok /\ CalledOk("close", FALSE))
                   => last.raised = "CloseError" /\ last.should

\* C6 witness: the commit failed, the rollback succeeded, nothing was raised
C6_Witness ==
    /\ last.op = "TxnExit"
    /\ CalledOk("commit", FALSE)
    /\ CalledOk("rollback", TRUE)
    /\ last.raised = "none"
    /\ exc[last.t] = "none"

\* C7: the exit of a transaction scope that owns the connection leaves the
\* context uninitialized and the driver connection closed, also when the
\* commit or the rollback of that exit failed.
C7_OwningTransactionAlwaysCleansUp ==
    (last.op = "TxnExit" /\ last.should)
       => /\ ~IsInit(Ctx(last.t))
          /\ \A i \in CallIx("commit") \cup CallIx("rollback") :
                driver[Calls[i].c].state = "closed"

\* C8 as claimed: when the body of a scope raised, the caller of the scope
\* observes that same exception after the exit (stated for the exits whose
\* Lazy Connection was opened, where commit and rollback reach the driver).
C8_BodyExceptionObserved ==
    (last.op \in Exits /\ last.excIn # "none" /\ last.raised # "AttributeError")
       => last.raised = "none" /\ exc[last.t] = last.excIn

\* C8 amended: when the body of a scope raised, the scope exit never returns
\* normally: the caller observes the body's exception, unless the rollback or
\* the cleanup of that exit itself raised, and then it observes that exception
\* (the only exception an exit swallows is the one of a failed commit).
C8_BodyExceptionNeverSuppressed ==
    (last.op \in Exits /\ last.excIn # "none")
       => /\ exc[last.t] # "none"
          /\ last.raised = "none" => exc[last.t] = last.excIn
          /\ last.raised # "none"
                => /\ exc[last.t] = last.raised
                   /\ \/ CalledOk("rollback", FALSE)
                      \/ CalledOk("close", FALSE)
                      \/ last.raised = "AttributeError" /\ last.decision = "rollback"
          /\ ~Called("commit")

\* C8 witness: a body exception crossed a transaction exit that rolled back
\* and closed the connection
C8_Witness ==
    /\ last.op = "TxnExit"
    /\ last.excIn = "BodyError"
    /\ CalledOk("rollback", TRUE)
    /\ CalledOk("close", TRUE)
    /\ exc[last.t] = "BodyError"

\* C9: create_engine with an engine already set raises DBError and leaves the
\* engine as it was, so that a later connect() is still made by that engine.
C9_SecondCreateEngineFails ==
    [][ /\ (last'.op = "CreateEngine" /\ engine # 0)
            => /\ engine' = engine
               /\ nEngines' = nEngines
               /\ last'.raised = "DBError"
               /\ exc'[last'.t] = "DBError"
        /\ (last'.by # 0 /\ engine # 0) => last'.by = engine ]_vars

\* C9 witness: a create_engine call was refused while an engine is set
C9_Witness ==
    /\ last.op = "CreateEngine"
    /\ last.raised = "DBError"
    /\ engine # 0
    /\ exc[last.t] = "DBError"

\* C10: with threads interleaving, each thread's context is what the thread
\* alone made it: its depth counts its own open transaction scopes, its scopes
\* all see its own Lazy Connection, which no other thread's context holds and
\* whose driver connection this thread opened, and a thread with no scope
\* open has no context left.
C10_OwnContext ==
    \A t \in Threads :
       /\ Ctx(t).transactions = Cardinality(TxnFrames(stack[t]))
       /\ \A i \in DOMAIN stack[t] :
             IsInit(Ctx(t)) /\ stack[t][i].lazy = Ctx(t).connection
       /\ stack[t] = <<>> => ~IsInit(Ctx(t))
       /\ IsInit(Ctx(t)) =>
             /\ \A u \in Threads \ {t} : Ctx(u).connection # Ctx(t).connection
             /\ lazies[Ctx(t).connection] # 0
                   => driver[lazies[Ctx(t).connection]].thread = t

\* a step is one thread's: it leaves every other thread's context, scopes,
\* propagating exception, Lazy Connection and driver connections as they were
C10_OthersUntouched ==
    \E t \in Threads :
       \A u \in Threads \ {t} :
          /\ ctx'[u] = ctx[u]
          /\ stack'[u] = stack[u]
          /\ exc'[u] = exc[u]
          /\ ctx[u].connection # 0 => lazies'[ctx[u].connection] = lazies[ctx[u].connection]
          /\ \A d \in DOMAIN driver : driver[d].thread = u => driver'[d] = driver[d]

\* C10: no thread observes or changes another thread's Lazy Connection or
\* nesting depth: every state shows each thread its own context only, and
\* every step changes the context of one thread only.
C10_ThreadIsolation == []C10_OwnContext /\ [][C10_OthersUntouched]_vars

\* C10 witness: both threads are inside scopes at different depths, each with
\* its own open driver connection
C10_Witness ==
    /\ \A t \in Threads : IsInit(Ctx(t)) /\ lazies[Ctx(t).connection] # 0
    /\ Ctx(1).transactions = 1
    /\ Ctx(2).transactions = 0
    /\ lazies[Ctx(1).connection] # lazies[Ctx(2).connection]

\* a statement executed inside a transaction nest ran on the connection of the
\* nest's first statement
C11_StatementsOnNestConnection ==
    LET t == last.t IN
    (last.op \in Executors /\ InTxn(t))
       => \A i \in DOMAIN ConnsOf(Calls, "execute") :
              /\ ConnsOf(Calls, "execute")[i] = nest[t].conn
              /\ IsInit(Ctx(t))
              /\ lazies[Ctx(t).connection] = nest[t].conn
              /\ driver[nest[t].conn].thread = t

\* the exit that ends a nest in which statements ran calls its commit or
\* rollback, and every commit or rollback it calls is on the nest's connection
C11_DecisionOnNestConnection ==
    \A t \in Threads :
       (last'.op = "TxnExit" /\ last'.t = t /\ nest'[t].state = "done"
        /\ nest[t].conn # 0)
          => /\ \E i \in DOMAIN last'.calls : last'.calls[i].f \in {"commit", "rollback"}
             /\ \A i \in DOMAIN last'.calls :
                    last'.calls[i].f \in {"commit", "rollback"}
                       => last'.calls[i].c = nest[t].conn

\* C11: the statements a thread issues between the enter and the exit of one
\* outermost transaction scope all execute on one driver connection (each
\* executor is a synchronous call, so they reach it in the order issued), and
\* the commit or rollback of the exit that brings the depth to 0 is called on
\* that same connection
C11_OneConnectionPerTransaction ==
    []C11_StatementsOnNestConnection /\ [][C11_DecisionOnNestConnection]_vars

\* C11 witness: in a nest that already executed a statement, a further
\* statement issued from an inner transaction scope ran on the same connection
C11_Witness ==
    /\ last.op \in Executors
    /\ Ctx(last.t).transactions = 2
    /\ ~Called("connect")
    /\ CalledOk("execute", TRUE)
    /\ \A i \in CallIx("execute") : Calls[i].c = nest[last.t].conn

\* C12: an executor called inside an open connection scope tears nothing down:
\* on return the context holds the same Lazy Connection, whose driver
\* connection (if opened) is still open, and the depth is what it was; called
\* with no enclosing scope it initializes the context itself and the context is
\* uninitialized again when it returns
C12_ExecutorLeavesScopeIntact ==
    LET t == last.t IN
    last.op \in Executors =>
       IF stack[t] # <<>>
       THEN /\ IsInit(Ctx(t))
            /\ Ctx(t).connection = Top(t).lazy
            /\ Ctx(t).transactions = Cardinality(TxnFrames(stack[t]))
            /\ ~Called("close")
            /\ lazies[Ctx(t).connection] # 0
                  => driver[lazies[Ctx(t).connection]].state = "open"
       ELSE /\ last.should
            /\ ~IsInit(Ctx(t))

\* C13: when the Lazy Connection was never opened in a transaction scope, the
\* commit or rollback of the exit at depth 0 is a no-op and no error: the exit
\* raises nothing of its own and leaves the context cleaned up
C13_UnopenedDecisionIsNoOp ==
    LET t == last.t IN
    (/\ last.op = "TxnExit"
     /\ last.decision # "none"
     /\ ~Called("commit") /\ ~Called("rollback"))
       => /\ last.raised = "none"
          /\ last.should => ~IsInit(Ctx(t))

\* C14: the nesting depth of every thread is never negative, and whenever it
\* is positive the thread's context is initialized (holds a Lazy Connection)
C14_DepthImpliesInit ==
    \A t \in world.threads :
       /\ Ctx(t).transactions >= 0
       /\ Ctx(t).transactions > 0 => Ctx(t).connection # 0

\* C14 witness: at depth 2 a statement has just failed and the context still
\* holds its Lazy Connection
C14_Witness ==
    /\ last.op \in Executors
    /\ last.raised # "none"
    /\ Ctx(last.t).transactions = 2
    /\ Ctx(last.t).connection # 0

\* C15: when the driver's close fails during cleanup, the failure propagates
\* only after the state is marked closed: the Lazy Connection no longer holds
\* the driver connection and the context has dropped its Lazy Connection
\* (is_init is false), so that the next scope initializes a fresh one
C15_CloseFailureLeavesStateClosed ==
    LET t == last.t IN
    CalledOk("close", FALSE)
       => /\ exc[t] # "none"
          /\ exc[t] = last.raised
          /\ \A i \in CallIx("close") : \A l \in DOMAIN lazies : lazies[l] # Calls[i].c
          /\ ~IsInit(Ctx(t))

\* C16: a driver connection is opened only by a cursor request (entering and
\* exiting scopes never calls engine.connect), and a Lazy Connection that has
\* been cleaned up is never opened again: statements after it run on a newly
\* constructed Lazy Connection
C16_NoReopenAfterCleanup ==
    /\ Called("connect") => last.op \in Executors
    /\ \A d \in DOMAIN driver : \A e \in DOMAIN driver :
          driver[d].lazy = driver[e].lazy => d = e
    /\ \A l \in DOMAIN lazies :
          lazies[l] # 0 => driver[lazies[l]].lazy = l /\ driver[lazies[l]].closes = 0

\* the step is a handler of thread t that called engine.connect() while a
\* lifecycle of t's context was running
ConnectsInLifecycle(t) ==
    /\ life[t].alive
    /\ last'.t = t
    /\ \E i \in DOMAIN last'.calls : last'.calls[i].f = "connect"

\* C17: engine.connect() is called at most once per lifecycle of the context
\* (from its initialization by the outermost scope to its cleanup by that
\* scope's exit), however many statements are executed in between and whether
\* or not a connect attempt or a statement fails in between
C17_ConnectCalledOncePerLifecycle ==
    [][\A t \in Threads : ConnectsInLifecycle(t) => ~life[t].tried]_vars

\* C17 as amended: in one lifecycle engine.connect() returns a connection at
\* most once and is not called again after it has; until it has, every
\* statement calls it, on a Lazy Connection that is still unopened
C17_ConnectSucceedsOncePerLifecycle ==
    [][\A t \in Threads :
         ConnectsInLifecycle(t)
            => /\ ~life[t].ok
               /\ lazies[Ctx(t).connection] = 0
               /\ life'[t].alive
               /\ life'[t].ok = \E i \in DOMAIN last'.calls :
                                   last'.calls[i].f = "connect" /\ last'.calls[i].ok]_vars

\* C17 witness: in a lifecycle whose connect has succeeded, a further
\* statement ran and failed on the open connection without connecting
C17_Witness ==
    /\ last.op \in Executors
    /\ life[last.t].alive
    /\ life[last.t].ok
    /\ ~Called("connect")
    /\ CalledOk("execute", FALSE)

\* the driver's rollback was called once by the handler, it failed, and no
\* commit or rollback was called after it
OneFailedRollbackLast ==
    /\ Cardinality(CallIx("rollback")) = 1
    /\ \A i \in CallIx("rollback") :
          /\ ~Calls[i].ok
          /\ \A j \in CallIx("commit") \cup CallIx("rollback") : j <= i

\* C18: when the rollback of the exit that brings the depth to 0 fails (chosen
\* because the body raised, or the fallback after a failed commit), the
\* failure is not recovered: it propagates out of the exit to the caller and no
\* further commit or rollback is attempted
C18_RollbackFailurePropagates ==
    (last.op = "TxnExit" /\ CalledOk("rollback", FALSE))
       => /\ OneFailedRollbackLast
          /\ last.raised = "DriverError"
          /\ exc[last.t] = "DriverError"

\* C18 as amended: the exit raises and attempts no further commit or
\* rollback; the caller gets the rollback's failure, unless the close done by
\* the cleanup of an owning scope fails too, and then it gets that failure
C18_RollbackFailureNotRecovered ==
    (last.op = "TxnExit" /\ CalledOk("rollback", FALSE))
       => /\ OneFailedRollbackLast
          /\ exc[last.t] = last.raised
          /\ last.raised = IF CalledOk("close", FALSE) THEN "CloseError"
                           ELSE "DriverError"
          /\ CalledOk("close", FALSE) => last.should

\* C18 witness: the commit failed, the fallback rollback failed too, the
\* connection was closed and the caller got the rollback's failure
C18_Witness ==
    /\ last.op = "TxnExit"
    /\ CalledOk("commit", FALSE)
    /\ CalledOk("rollback", FALSE)
    /\ CalledOk("close", TRUE)
    /\ exc[last.t] = "DriverError"

\* C19: initializing again after a teardown is legal: once engine has been
\* reset to None, create_engine succeeds and installs a new engine, for any
\* number of create/teardown cycles, while create_engine with an engine set
\* raises DBError and leaves the engine as it is
C19_ReinitAfterTeardown ==
    [][last'.op = "CreateEngine"
         => IF engine = 0
            THEN /\ engine' # 0
                 /\ engine' > nEngines
                 /\ nEngines' = engine'
                 /\ last'.raised = "none"
                 /\ exc' = exc
            ELSE /\ engine' = engine
                 /\ last'.raised = "DBError"
                 /\ exc'[last'.t] = "DBError"]_vars

\* C19 witness: after a teardown create_engine has installed a second engine
C19_Witness ==
    /\ last.op = "CreateEngine"
    /\ last.raised = "none"
    /\ engine = 2
    /\ nEngines = 2

\* C20: scope exits are balanced with respect to the depth: right after the
\* exit of a scope the depth is what it was right before that scope's enter,
\* on every exit path (an executor, being a whole connection scope, leaves the
\* depth as it found it); and _Dbctx.init, which resets the depth to 0,
\* only runs when the depth is 0 already
C20_DepthBalanced ==
    [][\A t \in Threads :
         last'.t = t
            => /\ last'.op \in Exits
                     => ctx'[CtxOf(t)].transactions = Top(t).depth0
               /\ last'.op \in Executors
                     => ctx'[CtxOf(t)].transactions = ctx[CtxOf(t)].transactions
               /\ Len(lazies') > Len(lazies)
                     => ctx[CtxOf(t)].transactions = 0]_vars

\* C20 witness: an inner transaction scope was left by an exception and the
\* depth is back to that of the enclosing scope
C20_Witness ==
    /\ last.op = "TxnExit"
    /\ last.excIn = "BodyError"
    /\ Len(stack[last.t]) = 1
    /\ Top(last.t).kind = "txn"
    /\ Ctx(last.t).transactions = 1

====
